---- MODULE Spec2Model ----
(***************************************************************************)
(* VoiceForge AI: the Piper / Web Speech synthesis chain, the application  *)
(* start-up, the WAV encoder, the text-input validation and the           *)
(* generation history, as state machines translated from the JavaScript.  *)
(***************************************************************************)
EXTENDS Integers, Sequences, FiniteSets, TLC

(***************************************************************************)
(* Bounds of the model.                                                    *)
(***************************************************************************)
\* callers of voiceForge.initialize(): caller 1 is VoiceForgeApp.initialize,
\* the others are initializeTTS() calls
NumInitCalls == 2
\* largest maxRetries handed to generateWithValidation
MaxRetries == 2

InitCallers == 1..NumInitCalls

(***************************************************************************)
(* State.                                                                  *)
(***************************************************************************)
VARIABLES
    \* PiperEngine
    piper,              \* "null" or the API the PiperWebEngine instance offers
    isInitialized,
    isInitializing,
    initPromise,        \* 0 (null) or the index in promises of the promise
    voices,             \* TRUE once loadAvailableVoices filled this.voices
    selectedVoice,      \* "none" or a voice id
    currentModelData,   \* "none" or the voice id whose model is cached
    initPc,             \* where the initialization closure is waiting
    promises,           \* every promise created by PiperEngine.initialize
    \* VoiceForgeEngine
    usePiper,
    piperReady,
    \* PiperIntegration
    initialized,
    \* callers of voiceForge.initialize()
    callers,
    \* VoiceForgeApp
    appPc,
    uiController,       \* FALSE is null
    listenersAttached,
    isReady,
    toasts,             \* the toasts shown so far
    voiceList,          \* the voice list the UI shows: "VOICES" or "piper"
    \* the speech requests in flight
    requests,
    \* AudioEngine.bufferToWave: its arguments and the bytes of its blob
    waveIn,
    waveOut,
    \* the text box, validateTextInput's last verdict, the events dispatched
    textInput,
    verdict,
    dispatched,
    \* UIController.history, localStorage[HISTORY_STORAGE_KEY], Date.now()
    history,
    storage,
    now,
    lastOp,
    ops,
    \* PiperEngine.pcmToWav: its arguments and the bytes of its blob
    pcmIn,
    pcmOut,
    \* the service worker: CacheStorage, the worker's life cycle, the
    \* caches.delete calls of its activate handler (all of them, and those
    \* still pending), its fetch events
    caches,
    swPc,
    pendingDeletes,
    events

engineVars == <<piper, isInitialized, isInitializing, initPromise, voices,
                selectedVoice, currentModelData, initPc, promises>>
forgeVars  == <<usePiper, piperReady, initialized>>
appVars    == <<appPc, uiController, listenersAttached, isReady, toasts,
                voiceList>>
waveVars   == <<waveIn, waveOut>>
textVars   == <<textInput, verdict, dispatched>>
histVars   == <<history, storage, now, lastOp, ops>>
pcmVars    == <<pcmIn, pcmOut>>
swVars     == <<caches, swPc, pendingDeletes, events>>
uiVars     == <<waveVars, textVars, histVars, pcmVars, swVars>>
chainVars  == <<engineVars, forgeVars, callers, appVars, requests>>
vars == <<chainVars, uiVars>>

(***************************************************************************)
(* Promises.  An async function returns a promise of its own on every      *)
(* call; returning a promise from it makes the new promise follow the      *)
(* returned one.                                                           *)
(***************************************************************************)
\* the promise of the initialization closure that initPromise is set to
ClosurePromise == [kind |-> "closure", follows |-> 0, state |-> "pending",
                   imports |-> 1, constructs |-> 0]

\* the promise of an async call that returned promise p
AsyncPromise(p) == [kind |-> "async", follows |-> p, state |-> "pending",
                    imports |-> 0, constructs |-> 0]

\* the promise of an async call that returned a plain value
AsyncValue == [kind |-> "async", follows |-> 0, state |-> "fulfilled",
               imports |-> 0, constructs |-> 0]

(***************************************************************************)
(* Voices.                                                                 *)
(***************************************************************************)
\* ids of PiperEngine.loadAvailableVoices' voiceList; the first is the default
PiperVoices == {"en_US-lessac-high", "en_US-john-medium"}
DefaultVoice == "en_US-lessac-high"
\* ids of utils VOICES; "en_US-hfc_female-medium" is no Piper voice
PresetVoices == {"en_US-lessac-high", "en_US-hfc_female-medium",
                 "en_US-john-medium"}

\* the synthesis entry point the loaded PiperWebEngine instance offers
PiperApis == {"generate", "synthesize", "synthesizeToSpeech", "Settings",
              "none"}

(***************************************************************************)
(* PiperEngine.initialize                                                  *)
(***************************************************************************)
IdleCaller == [pc |-> "idle", promise |-> 0, joined |-> FALSE, ok |-> FALSE]

Awaiting(p, j) == [pc |-> "awaiting", promise |-> p, joined |-> j,
                   ok |-> FALSE]

\* mutant of InitializeInProgress: the guard is missing
InitializeInProgress_NoGuard == FALSE

\* the guard "if (this.isInitializing) return this.initPromise"
InitializeInProgress == isInitializing

\* PiperEngine.initialize() up to its return, called by caller c; joined
\* records whether the initialization closure was running at the call
PiperInitialize(c) ==
    LET n == Len(promises)
        running == initPc # "idle"
    IN
    IF InitializeInProgress THEN
        /\ promises' = Append(promises, AsyncPromise(initPromise))
        /\ callers' = [callers EXCEPT ![c] = Awaiting(n + 1, running)]
        /\ UNCHANGED <<piper, isInitialized, isInitializing, initPromise,
                       voices, selectedVoice, currentModelData, initPc>>
    ELSE IF isInitialized THEN
        /\ promises' = Append(promises, AsyncValue)
        /\ callers' = [callers EXCEPT ![c] = Awaiting(n + 1, running)]
        /\ UNCHANGED <<piper, isInitialized, isInitializing, initPromise,
                       voices, selectedVoice, currentModelData, initPc>>
    ELSE
        /\ isInitializing' = TRUE
        /\ initPromise' = n + 1
        /\ promises' = promises \o <<ClosurePromise, AsyncPromise(n + 1)>>
        /\ initPc' = "import"
        /\ callers' = [callers EXCEPT ![c] = Awaiting(n + 2, running)]
        /\ UNCHANGED <<piper, isInitialized, voices, selectedVoice,
                       currentModelData>>

(***************************************************************************)
(* PiperIntegration.initialize, VoiceForgeEngine.initializePiper and the   *)
(* part of VoiceForgeApp.initialize that follows its await of them.        *)
(***************************************************************************)
AppTtsSettled_Rethrow(ok) ==
    IF ok
    THEN /\ uiController' = TRUE
         /\ listenersAttached' = TRUE
         /\ appPc' = "loadVoices"
         /\ UNCHANGED <<isReady, toasts, voiceList>>
    ELSE /\ appPc' = "failed"
         /\ toasts' = toasts \cup {"initialization_error"}
         /\ UNCHANGED <<uiController, listenersAttached, isReady, voiceList>>

\* VoiceForgeApp.initialize after "await this.voiceEngine.initialize()":
\* a rejection is caught and logged; the UI controller is created, the
\* listeners are attached and loadVoices is started
AppTtsSettled(ok) ==
    /\ uiController' = TRUE
    /\ listenersAttached' = TRUE
    /\ appPc' = "loadVoices"
    /\ UNCHANGED <<isReady, toasts, voiceList>>

\* The closure's promise settles and the callers awaiting it resume, in the
\* same turn of the event loop: initializePiper sets piperReady and usePiper,
\* PiperIntegration.initialize sets initialized or throws, and
\* VoiceForgeApp.initialize goes on when it is among them.
ResumeCallers(ok) ==
    LET waiting == {c \in InitCallers : callers[c].pc = "awaiting"} IN
    /\ callers' = [c \in InitCallers |->
                     IF c \in waiting
                     THEN [callers[c] EXCEPT !.pc = "done", !.ok = ok]
                     ELSE callers[c]]
    /\ IF waiting = {} THEN UNCHANGED forgeVars
       ELSE IF ok
       THEN piperReady' = TRUE /\ usePiper' = TRUE /\ initialized' = TRUE
       ELSE usePiper' = FALSE /\ piperReady' = FALSE /\ UNCHANGED initialized
    /\ IF 1 \in waiting THEN AppTtsSettled(ok) ELSE UNCHANGED appVars

\* the catch block of the closure: isInitializing = false; throw error
ClosureFails(built) ==
    /\ isInitializing' = FALSE
    /\ promises' = [promises EXCEPT ![initPromise].state = "rejected",
                                    ![initPromise].constructs = built]
    /\ initPc' = "idle"
    /\ UNCHANGED <<piper, isInitialized, initPromise, voices, selectedVoice,
                   currentModelData>>
    /\ ResumeCallers(FALSE)

\* the dynamic import settles; on success the engine is constructed and
\* loadAvailableVoices runs up to the closure's next await
ImportSettles ==
    /\ initPc = "import"
    /\ \E outcome \in {"loaded", "importFails", "constructorThrows"} :
        CASE outcome = "importFails" -> ClosureFails(0)
          [] outcome = "constructorThrows" -> ClosureFails(1)
          [] outcome = "loaded" ->
                /\ \E api \in PiperApis : piper' = api
                /\ promises' = [promises EXCEPT ![initPromise].constructs = 1]
                /\ voices' = TRUE
                /\ selectedVoice' = DefaultVoice
                /\ initPc' = "voices"
                /\ UNCHANGED <<isInitialized, isInitializing, initPromise,
                               currentModelData>>
                /\ UNCHANGED <<forgeVars, callers, appVars>>
    /\ UNCHANGED <<requests, uiVars>>

\* after "await this.loadAvailableVoices()": the default voice's model is
\* requested (loadVoiceModel up to its fetches)
VoicesLoaded ==
    /\ initPc = "voices"
    /\ initPc' = "model"
    /\ UNCHANGED <<piper, isInitialized, isInitializing, initPromise, voices,
                   selectedVoice, currentModelData, promises>>
    /\ UNCHANGED <<forgeVars, callers, appVars, requests, uiVars>>

\* loadVoiceModel settles (a failure is caught and logged), then
\* isInitialized = true and the closure returns this.piper
ModelSettles ==
    /\ initPc = "model"
    /\ \E fetched \in BOOLEAN :
        currentModelData' =
            IF selectedVoice # "none" /\ currentModelData # selectedVoice
               /\ fetched
            THEN selectedVoice ELSE currentModelData
    /\ isInitialized' = TRUE
    /\ promises' = [promises EXCEPT ![initPromise].state = "fulfilled"]
    /\ initPc' = "idle"
    /\ UNCHANGED <<piper, isInitializing, initPromise, voices, selectedVoice>>
    /\ ResumeCallers(TRUE)
    /\ UNCHANGED <<requests, uiVars>>

\* voiceForge.initialize() by caller c: initializePiper returns true at once
\* when piperReady, else it awaits piperEngine.initialize()
CallInitialize(c) ==
    /\ callers[c].pc = "idle"
    /\ IF piperReady
       THEN /\ callers' = [callers EXCEPT ![c].pc = "done", ![c].ok = TRUE]
            /\ initialized' = TRUE
            /\ UNCHANGED <<engineVars, usePiper, piperReady>>
            /\ IF c = 1 THEN AppTtsSettled(TRUE) ELSE UNCHANGED appVars
       ELSE /\ PiperInitialize(c)
            /\ UNCHANGED forgeVars
            /\ IF c = 1
               THEN /\ appPc' = "ttsInit"
                    /\ UNCHANGED <<uiController, listenersAttached, isReady,
                                   toasts, voiceList>>
               ELSE UNCHANGED appVars
    /\ UNCHANGED <<requests, uiVars>>

\* initializeTTS(): another caller of voiceForge.initialize()
InitializeTTS(c) ==
    /\ c # 1
    /\ CallInitialize(c)

(***************************************************************************)
(* VoiceForgeApp.initialize                                                *)
(***************************************************************************)
\* i18n is ready: the app calls this.voiceEngine.initialize()
AppStart ==
    /\ appPc = "i18n"
    /\ CallInitialize(1)

\* loadVoices: the Piper voices are shown when there are any, else VOICES
AppLoadVoices ==
    /\ appPc = "loadVoices"
    /\ voiceList' = IF piperReady /\ voices THEN "piper" ELSE "VOICES"
    /\ appPc' = "settle"
    /\ UNCHANGED <<uiController, listenersAttached, isReady, toasts>>
    /\ UNCHANGED <<engineVars, forgeVars, callers, requests, uiVars>>

\* the 4000 ms timer fires: isReady = true and the ready toast is shown
AppSettled ==
    /\ appPc = "settle"
    /\ isReady' = TRUE
    /\ toasts' = toasts \cup
          {IF piperReady /\ usePiper THEN "neural_ready" ELSE "ready"}
    /\ appPc' = "ready"
    /\ UNCHANGED <<uiController, listenersAttached, voiceList>>
    /\ UNCHANGED <<engineVars, forgeVars, callers, requests, uiVars>>

(***************************************************************************)
(* Speech requests.  A request is one run of VoiceForgeApp.generateAudio   *)
(* or of generateWithValidation; both call voiceForge.generateSpeech.      *)
(* The synchronous code between two awaits is one step, so the operators   *)
(* below are functions of a context x: the request x.q and the fields the  *)
(* code may write on the way.                                              *)
(***************************************************************************)
Slots == {"generateAudio", "generateWithValidation"}

Texts == {"  ", "Hello"}

\* !text || text.trim().length === 0
Blank(text) == text \in {"", "  "}

\* PCM in units of 1/10000 of full scale; two samples stand for the buffer
Speech == <<3000, -3000>>
Quiet == <<4, -4>>
\* new Float32Array(22050): all zero
Placeholder == <<0, 0>>

NoResult == [status |-> "none", error |-> "", isPiper |-> FALSE,
             rawAudio |-> <<>>, hasAudioBuffer |-> FALSE,
             audioBuffer |-> <<>>, origin |-> "none"]

Rejected(msg) == [NoResult EXCEPT !.status = "rejected", !.error = msg]

\* the object VoiceForgeEngine.synthesizeToSpeech builds from the Piper
\* result: the AudioBuffer goes into rawAudio, there is no audioBuffer field
ForgeResult(pcm, origin) ==
    [status |-> "fulfilled", error |-> "", isPiper |-> TRUE,
     rawAudio |-> pcm, hasAudioBuffer |-> FALSE, audioBuffer |-> <<>>,
     origin |-> origin]

IdleRequest ==
    [pc |-> "idle", kind |-> "none", text |-> "", voiceId |-> "none", forcePiper |-> FALSE,
     maxRetries |-> 0, attempt |-> 0, calls |-> 0,
     readyAtCall |-> FALSE, degraded |-> FALSE,
     entry |-> FALSE, piperTried |-> FALSE, piperThrew |-> FALSE,
     piperStatus |-> "none", piperOrigin |-> "none",
     engineOutcome |-> "none",
     webInvoked |-> FALSE, usePiperAtWeb |-> FALSE, webArgs |-> <<>>,
     result |-> NoResult, heard |-> FALSE, outcome |-> "none"]

\* what one generateSpeech call records is cleared at the next call
NewCall(q) ==
    [q EXCEPT !.calls = q.calls + 1,
              !.readyAtCall = piperReady,
              !.degraded = callers[1].pc = "done" /\ ~callers[1].ok
                           /\ ~piperReady,
              !.entry = FALSE, !.piperTried = FALSE, !.piperThrew = FALSE,
              !.piperStatus = "none", !.piperOrigin = "none",
              !.engineOutcome = "none",
              !.webInvoked = FALSE, !.usePiperAtWeb = FALSE,
              !.webArgs = <<>>, !.result = NoResult]

RECURSIVE SumSquares(_)
SumSquares(samples) ==
    IF samples = <<>> THEN 0
    ELSE Head(samples) * Head(samples) + SumSquares(Tail(samples))

\* rms < threshold for threshold = 0.001, i.e. 10 units; the rms of an
\* empty channel is NaN and NaN < threshold is false
RmsBelowThreshold(samples) ==
    IF Len(samples) = 0 THEN FALSE
    ELSE SumSquares(samples) < 10 * 10 * Len(samples)

\* isSilent(result)
IsSilent(result) ==
    IF result.status # "fulfilled" \/ ~result.hasAudioBuffer THEN TRUE
    ELSE RmsBelowThreshold(result.audioBuffer)

\* generateSpeech has settled with res: what its caller does next.
\* generateAudio displays the audio or shows the error toast;
\* generateWithValidation returns, retries or throws.
Deliver(x, res) ==
    LET q == x.q
        ok == res.status = "fulfilled"
    IN
    IF q.kind = "generateAudio"
    THEN [x EXCEPT !.q.pc = "done", !.q.result = res,
                   !.q.outcome = IF ok THEN "displayed" ELSE "error"]
    ELSE IF ok /\ ~IsSilent(res)
    THEN [x EXCEPT !.q.pc = "done", !.q.result = res,
                   !.q.heard = TRUE, !.q.outcome = "returned"]
    ELSE [x EXCEPT !.q.result = res,
                   !.q.heard = q.heard
                               \/ (ok /\ ~RmsBelowThreshold(res.rawAudio)),
                   !.q.attempt = q.attempt + 1,
                   !.q.pc = IF q.attempt + 1 >= q.maxRetries
                            THEN "done" ELSE "retry",
                   !.q.outcome = IF q.attempt + 1 >= q.maxRetries
                                 THEN "thrown" ELSE "none"]

\* AudioEngine.synthesizeToSpeech(text, options) is called
InvokeWebSpeech(x) ==
    [x EXCEPT !.q.pc = "webSpeech", !.q.webInvoked = TRUE,
              !.q.usePiperAtWeb = x.usePiper,
              !.q.webArgs = <<x.q.text, x.q.voiceId, x.q.forcePiper>>]

\* mutant of UsePiperAfterError: the catch block leaves usePiper alone
UsePiperAfterError_Kept(use) == use

\* the catch block of VoiceForgeEngine.synthesizeToSpeech: usePiper = false
UsePiperAfterError(use) == FALSE

\* PiperEngine.synthesizeToSpeech has thrown: VoiceForgeEngine catches,
\* clears usePiper and falls through to the Web Speech backend
PiperRejected(x) ==
    InvokeWebSpeech([x EXCEPT !.usePiper = UsePiperAfterError(x.usePiper),
                              !.q.piperThrew = TRUE,
                              !.q.piperStatus = "rejected"])

\* PiperEngine.synthesizeToSpeech has returned pcm: VoiceForgeEngine
\* returns its result object and generateSpeech hands it on
PiperFulfilled(x, pcm, origin) ==
    Deliver([x EXCEPT !.q.piperStatus = "fulfilled",
                      !.q.piperOrigin = origin],
            ForgeResult(pcm, origin))

\* the inner catch of PiperEngine.synthesizeToSpeech: "Empty audio as
\* fallback"
MethodFailed(x, what) ==
    PiperFulfilled([x EXCEPT !.q.engineOutcome = what], Placeholder,
                   "placeholder")

\* PiperEngine.synthesizeToSpeech from "let result" on: the synthesis
\* method of the instance is called; without one the throw is caught by
\* the inner catch (with Settings, this.piper.synthesize is no function)
Generate(x) ==
    IF piper \in {"generate", "synthesize", "synthesizeToSpeech"}
    THEN [x EXCEPT !.q.pc = "piperGen"]
    ELSE MethodFailed(x, "noMethod")

\* PiperEngine.synthesizeToSpeech up to its first await, with the
\* synchronous part of loadVoiceModel
PiperSynthesize(x) ==
    LET voiceId == IF x.q.voiceId # "none" THEN x.q.voiceId
                   ELSE x.selectedVoice
    IN
    IF ~isInitialized \/ Blank(x.q.text) \/ voiceId = "none"
    THEN PiperRejected(x)
    ELSE IF x.selectedVoice # voiceId
    THEN IF piper = "null" THEN PiperRejected(x)
         ELSE IF x.currentModelData = voiceId THEN Generate(x)
         ELSE IF ~(voices /\ voiceId \in PiperVoices) THEN PiperRejected(x)
         ELSE [x EXCEPT !.q.pc = "piperLoad"]
    ELSE Generate(x)

\* the test "if (this.piperReady && this.usePiper)"
UsePiperBranch(use) == piperReady /\ use

\* VoiceForgeEngine.synthesizeToSpeech up to its first await; entry records
\* whether Piper was ready and enabled when the call came in
SynthesizeToSpeech(x) ==
    IF Blank(x.q.text) THEN Deliver(x, Rejected("Text cannot be empty"))
    ELSE LET y == [x EXCEPT !.q.entry = piperReady /\ x.usePiper] IN
         IF UsePiperBranch(y.usePiper)
         THEN PiperSynthesize([y EXCEPT !.q.piperTried = TRUE])
         ELSE InvokeWebSpeech(y)

\* PiperIntegration.generateSpeech up to its first await.  With forcePiper
\* and Piper not ready the code polls piperReady up to 25 times and then
\* throws; the poll is folded into the throw (see InitializedMeansReady).
GenerateSpeech(x0) ==
    LET x == [x0 EXCEPT !.q = NewCall(x0.q)] IN
    IF ~initialized
    THEN Deliver(x, Rejected("TTS Engine not initialized"))
    ELSE IF Blank(x.q.text)
    THEN Deliver(x, Rejected("Text cannot be empty"))
    ELSE IF x.q.forcePiper
    THEN IF ~piperReady
         THEN Deliver(x, Rejected("Piper TTS engine failed to initialize"))
         ELSE SynthesizeToSpeech([x EXCEPT !.usePiper = TRUE])
    ELSE SynthesizeToSpeech(x)

Context(q) == [q |-> q, usePiper |-> usePiper,
               selectedVoice |-> selectedVoice,
               currentModelData |-> currentModelData]

\* the step of slot s ends in context x
Commit(s, x) ==
    /\ requests' = [requests EXCEPT ![s] = x.q]
    /\ usePiper' = x.usePiper
    /\ selectedVoice' = x.selectedVoice
    /\ currentModelData' = x.currentModelData
    /\ UNCHANGED <<piper, isInitialized, isInitializing, initPromise, voices,
                   initPc, promises, piperReady, initialized, callers,
                   appVars, uiVars>>

NewRequest(kind, text, voiceId, forcePiper, maxRetries) ==
    [IdleRequest EXCEPT !.kind = kind, !.text = text, !.voiceId = voiceId,
                        !.forcePiper = forcePiper,
                        !.maxRetries = maxRetries]

\* the "generateAudio" listener: VoiceForgeApp.generateAudio with the text
\* and the selected voice of the UI, forcePiper: true
GenerateAudio ==
    /\ listenersAttached
    /\ requests["generateAudio"].pc \in {"idle", "done"}
    /\ \E voiceId \in (IF voiceList = "piper" THEN PiperVoices
                       ELSE PresetVoices) :
         Commit("generateAudio",
                GenerateSpeech(Context(
                    NewRequest("generateAudio", "Hello", voiceId, TRUE, 0))))

\* generateWithValidation(text, options, maxRetries)
GenerateWithValidation ==
    /\ requests["generateWithValidation"].pc \in {"idle", "done"}
    /\ \E text \in Texts, voiceId \in {"none", "en_US-hfc_female-medium"},
          forcePiper \in BOOLEAN, maxRetries \in 0..MaxRetries :
         LET q == NewRequest("generateWithValidation", text, voiceId,
                             forcePiper, maxRetries)
         IN IF maxRetries = 0
            THEN Commit("generateWithValidation",
                        Context([q EXCEPT !.pc = "done",
                                          !.outcome = "thrown"]))
            ELSE Commit("generateWithValidation",
                        GenerateSpeech(Context(q)))

\* the next iteration of generateWithValidation's loop
RetryGeneration ==
    /\ requests["generateWithValidation"].pc = "retry"
    /\ Commit("generateWithValidation",
              GenerateSpeech(Context(requests["generateWithValidation"])))

\* loadVoiceModel(voiceId) of a synthesis settles
VoiceModelSettles(s) ==
    /\ requests[s].pc = "piperLoad"
    /\ \E fetched \in BOOLEAN :
         LET x == Context(requests[s]) IN
         IF fetched
         THEN Commit(s, Generate([x EXCEPT
                                    !.selectedVoice = x.q.voiceId,
                                    !.currentModelData = x.q.voiceId]))
         ELSE Commit(s, PiperRejected(x))

\* what the synthesis method of the instance may do
EngineOutcomes ==
    IF piper = "generate"
    THEN {"audio", "Float32Array", "buffer", "raw", "unknown", "throws"}
    ELSE {"audio", "noAudio", "throws"}

\* the synthesis method of the instance settles
PiperGenSettles(s) ==
    /\ requests[s].pc = "piperGen"
    /\ \E outcome \in EngineOutcomes :
       \E pcm \in (IF outcome = "audio" THEN {Speech, Quiet} ELSE {Speech}) :
         LET x == [Context(requests[s]) EXCEPT !.q.engineOutcome = outcome]
         IN CASE outcome \in {"unknown", "throws"} ->
                    Commit(s, MethodFailed(x, outcome))
              [] outcome = "noAudio" -> Commit(s, PiperRejected(x))
              [] OTHER -> Commit(s, PiperFulfilled(x, pcm, "engine"))

\* AudioEngine.synthesizeToSpeech settles: synthesizeWithFallback rejects
\* after the system voice has spoken, and when it failed to
WebSpeechSettles(s) ==
    /\ requests[s].pc = "webSpeech"
    /\ Commit(s, Deliver(Context(requests[s]),
                         Rejected("System voices cannot be exported")))

(***************************************************************************)
(* AudioEngine.bufferToWave.  A sample is held as a number of quarters     *)
(* (-6 is -1.5, 2 is 0.5), a byte as a number in 0..255, and the DataView  *)
(* as its bytes and whether a write before threw a RangeError.             *)
(***************************************************************************)
MaxChannels == 2
MaxFrames   == 2

SampleValues == <<-6, -4, -1, 0, 2, 4>>
SampleRates  == {22050, 48000}
BitDepths    == {8, 16, 24, 32}

\* the sample of frame i of channel ch (both from 0) in test buffer `seed`
SampleAt(seed, ch, i) ==
    SampleValues[((seed + 2 * ch + i) % Len(SampleValues)) + 1]

AudioBuffer(C, N, rate, seed) ==
    [numberOfChannels |-> C,
     length           |-> N,
     sampleRate       |-> rate,
     channels         |-> [ch \in 1..C |->
                              [i \in 1..N |-> SampleAt(seed, ch - 1, i - 1)]]]

IdleWave == [audioBuffer |-> AudioBuffer(1, 0, 22050, 0), bitDepth |-> 0]
NoWave   == [done |-> FALSE, threw |-> FALSE, bytes |-> <<>>]

Zeros(n) == [i \in 1..n |-> 0]

\* DataView.setUint8 / setInt8 ... at byte offset `at`, for the bytes bs
SetBytes(view, at, bs) ==
    IF view.threw \/ at + Len(bs) > Len(view.bytes)
    THEN [view EXCEPT !.threw = TRUE]
    ELSE [view EXCEPT !.bytes =
            [k \in 1..Len(view.bytes) |->
                IF k > at /\ k <= at + Len(bs) THEN bs[k - at]
                                               ELSE view.bytes[k]]]

\* the low two and four bytes of v, which is v modulo 2^16 and 2^32
Uint16LE(v) == <<v % 256, (v \div 256) % 256>>
Uint32LE(v) ==
    <<v % 256, (v \div 256) % 256, (v \div 65536) % 256,
      (v \div 16777216) % 256>>

\* string.charCodeAt(i) of the four chunk names
CharCodes(string) ==
    CASE string = "RIFF" -> <<82, 73, 70, 70>>
      [] string = "WAVE" -> <<87, 65, 86, 69>>
      [] string = "fmt " -> <<102, 109, 116, 32>>
      [] string = "data" -> <<100, 97, 116, 97>>

\* x | 0 for a number n/d of less than 2^31: truncation towards zero
TruncateToInt32(n, d) == IF n >= 0 THEN n \div d ELSE -((-n) \div d)

\* Math.max(-1, Math.min(1, x))
Clamp(x) == IF x > 4 THEN 4 ELSE IF x < -4 THEN -4 ELSE x

\* DataView.setFloat32 of the sample values, little-endian
Float32LE(x) ==
    CASE x = -6 -> <<0, 0, 192, 191>>
      [] x = -4 -> <<0, 0, 128, 191>>
      [] x = -1 -> <<0, 0, 128, 190>>
      [] x = 0  -> <<0, 0, 0, 0>>
      [] x = 2  -> <<0, 0, 0, 63>>
      [] x = 4  -> <<0, 0, 128, 63>>

\* the bytes one sample is written as in each of the three branches
SampleBytes(x, bitDepth) ==
    CASE bitDepth = 16 ->
            LET sample == Clamp(x)
                pcm == TruncateToInt32(
                         IF sample < 0 THEN sample * 32768
                                       ELSE sample * 32767, 4)
            IN  Uint16LE(pcm)
      [] bitDepth = 24 ->
            LET sample == Clamp(x)
                val == TruncateToInt32(
                         IF sample < 0 THEN sample * 8388608
                                       ELSE sample * 8388607, 4)
            IN  <<val % 256, (val \div 256) % 256, (val \div 65536) % 256>>
      [] bitDepth = 32 -> Float32LE(x)
      [] OTHER -> <<>>

\* mutant of Interleave: one channel after the other
Interleave_Planar(channels, C, N) ==
    [k \in 1..(C * N) |-> channels[((k - 1) \div N) + 1][((k - 1) % N) + 1]]

\* data[offset++] = channels[channel][i], frame by frame
Interleave(channels, C, N) ==
    [k \in 1..(C * N) |-> channels[((k - 1) % C) + 1][((k - 1) \div C) + 1]]

RECURSIVE WriteSamples(_, _, _, _, _)
WriteSamples(view, data, i, index, bitDepth) ==
    IF i > Len(data) THEN view
    ELSE WriteSamples(SetBytes(view, index, SampleBytes(data[i], bitDepth)),
                      data, i + 1, index + bitDepth \div 8, bitDepth)

RECURSIVE WriteAll(_, _)
WriteAll(view, writes) ==
    IF writes = <<>> THEN view
    ELSE WriteAll(SetBytes(view, Head(writes)[1], Head(writes)[2]),
                  Tail(writes))

bufferToWave(audioBuffer, bitDepthArg) ==
    LET numberOfChannels == audioBuffer.numberOfChannels
        sampleRate == audioBuffer.sampleRate
        format == IF bitDepthArg = 32 THEN 3 ELSE 1
        bitDepth == IF bitDepthArg \in {16, 24, 32} THEN bitDepthArg ELSE 16
        bytesPerSample == bitDepth \div 8
        blockAlign == numberOfChannels * bytesPerSample
        data == Interleave(audioBuffer.channels, numberOfChannels,
                           audioBuffer.length)
        dataLength == Len(data) * bytesPerSample
        buffer == [threw |-> FALSE, bytes |-> Zeros(44 + dataLength)]
        header == WriteAll(buffer,
            << <<0, CharCodes("RIFF")>>,
               <<4, Uint32LE(36 + dataLength)>>,
               <<8, CharCodes("WAVE")>>,
               <<12, CharCodes("fmt ")>>,
               <<16, Uint32LE(16)>>,
               <<20, Uint16LE(format)>>,
               <<22, Uint16LE(numberOfChannels)>>,
               <<24, Uint32LE(sampleRate)>>,
               <<28, Uint32LE(sampleRate * blockAlign)>>,
               <<32, Uint16LE(blockAlign)>>,
               <<34, Uint16LE(bitDepth)>>,
               <<36, CharCodes("data")>>,
               <<40, Uint32LE(dataLength)>> >>)
        view == WriteSamples(header, data, 1, 44, bitDepth)
    IN  [done |-> TRUE, threw |-> view.threw, bytes |-> view.bytes]

\* one call of bufferToWave on the buffer at hand
EncodeWave ==
    /\ ~waveOut.done
    /\ waveIn.bitDepth # 0
    /\ waveOut' = bufferToWave(waveIn.audioBuffer, waveIn.bitDepth)
    /\ UNCHANGED <<waveIn, textVars, histVars, chainVars,
                 pcmVars, swVars>>

WaveIdle == waveIn = IdleWave /\ waveOut = NoWave

WaveInputs ==
    /\ waveIn \in {[audioBuffer |-> AudioBuffer(C, N, rate, seed),
                    bitDepth |-> b] :
                      C \in 1..MaxChannels, N \in 0..MaxFrames,
                      rate \in SampleRates,
                      seed \in 0..(Len(SampleValues) - 1), b \in BitDepths}
    /\ waveOut = NoWave

(***************************************************************************)
(* PiperEngine.pcmToWav, over the samples and bytes of bufferToWave.       *)
(***************************************************************************)
MaxPcmSamples == 2

IdlePcm == [pcmData |-> <<>>, sampleRate |-> 22050, channels |-> 1,
            bitDepth |-> 0]

\* the loop "PCM data (16-bit)": setInt16 at index, index += 2
RECURSIVE WritePcm16(_, _, _, _)
WritePcm16(view, pcmData, i, index) ==
    IF i > Len(pcmData) THEN view
    ELSE WritePcm16(SetBytes(view, index, SampleBytes(pcmData[i], 16)),
                    pcmData, i + 1, index + 2)

pcmToWav(pcmData, sampleRate, channels, bitDepth) ==
    LET bytesPerSample == bitDepth \div 8
        blockAlign == channels * bytesPerSample
        dataLength == Len(pcmData) * bytesPerSample
        buffer == [threw |-> FALSE, bytes |-> Zeros(44 + dataLength)]
        header == WriteAll(buffer,
            << <<0, CharCodes("RIFF")>>,
               <<4, Uint32LE(36 + dataLength)>>,
               <<8, CharCodes("WAVE")>>,
               <<12, CharCodes("fmt ")>>,
               <<16, Uint32LE(16)>>,
               <<20, Uint16LE(1)>>,
               <<22, Uint16LE(channels)>>,
               <<24, Uint32LE(sampleRate)>>,
               <<28, Uint32LE(sampleRate * blockAlign)>>,
               <<32, Uint16LE(blockAlign)>>,
               <<34, Uint16LE(bitDepth)>>,
               <<36, CharCodes("data")>>,
               <<40, Uint32LE(dataLength)>> >>)
        view == WritePcm16(header, pcmData, 1, 44)
    IN  [done |-> TRUE, threw |-> view.threw, bytes |-> view.bytes]

\* one call of pcmToWav on the samples at hand
EncodePcm ==
    /\ ~pcmOut.done
    /\ pcmIn.bitDepth # 0
    /\ pcmOut' = pcmToWav(pcmIn.pcmData, pcmIn.sampleRate, pcmIn.channels,
                          pcmIn.bitDepth)
    /\ UNCHANGED <<pcmIn, waveVars, textVars, histVars, chainVars, swVars>>

PcmIdle == pcmIn = IdlePcm /\ pcmOut = NoWave

PcmInputs ==
    /\ pcmIn \in {[pcmData    |-> [i \in 1..n |-> SampleAt(seed, 0, i - 1)],
                   sampleRate |-> rate,
                   channels   |-> c,
                   bitDepth   |-> b] :
                     n \in 0..MaxPcmSamples,
                     seed \in 0..(Len(SampleValues) - 1),
                     rate \in SampleRates, c \in 1..MaxChannels,
                     b \in {16, 24, 32}}
    /\ pcmOut = NoWave

(***************************************************************************)
(* The service worker (sw.js).  CacheStorage maps a cache name to the      *)
(* cache, a cache maps a URL to the response stored for it.  A fetch       *)
(* event waits until the worker is activated.                              *)
(***************************************************************************)
NumFetchEvents == 2

CACHE_NAME == "voiceforge-v1"
\* the caches of the origin, in the order of their creation
CacheOrder == <<"voiceforge-v0", "other-cache", "voiceforge-v1">>
CacheNames == {CacheOrder[i] : i \in 1..Len(CacheOrder)}

\* "/index.html" is one of urlsToCache, "/data" is not
Urls == {"/index.html", "/data"}
urlsToCache == {"/index.html"}
Methods == {"GET", "POST"}

NoResponse == [status |-> 0, type |-> "none", via |-> "none", url |-> ""]

\* what fetch(event.request) may resolve with
NetworkResponses(url) ==
    {[status |-> st[1], type |-> st[2], via |-> "network", url |-> url] :
        st \in {<<200, "basic">>, <<404, "basic">>, <<0, "opaque">>}}

\* the response cache.addAll stored for url, and one of an older worker
Precached(url) ==
    [status |-> 200, type |-> "basic", via |-> "install", url |-> url]
OldEntry(url) ==
    [status |-> 200, type |-> "basic", via |-> "old", url |-> url]

NoCache    == [exists |-> FALSE, entries |-> [u \in Urls |-> NoResponse]]
EmptyCache == [exists |-> TRUE, entries |-> [u \in Urls |-> NoResponse]]
OldCache   == [exists |-> TRUE, entries |-> [u \in Urls |-> OldEntry(u)]]

\* caches.match(request): the first cache, in creation order, with an entry
RECURSIVE MatchFrom(_, _, _)
MatchFrom(store, url, i) ==
    IF i > Len(CacheOrder) THEN NoResponse
    ELSE LET cache == store[CacheOrder[i]] IN
         IF cache.exists /\ cache.entries[url] # NoResponse
         THEN cache.entries[url]
         ELSE MatchFrom(store, url, i + 1)

cachesMatch(store, url) == MatchFrom(store, url, 1)

\* mutant of CacheHit: the cached response is ignored
CacheHit_Ignored(response) == FALSE

\* if (response) return response
CacheHit(response) == response # NoResponse

\* mutant of SkipsCaching: every network response is cached
SkipsCaching_Never(response) == FALSE

\* !response || response.status !== 200 || response.type === "error"
SkipsCaching(response) ==
    response = NoResponse \/ response.status # 200 \/ response.type = "error"

\* mutant of IsOldCache: the current cache is deleted with the others
IsOldCache_All(cacheName) == TRUE

\* cacheName !== CACHE_NAME
IsOldCache(cacheName) == cacheName # CACHE_NAME

IdleEvent ==
    [pc |-> "idle", method |-> "GET", url |-> "", intercepted |-> FALSE,
     matched |-> NoResponse, fetched |-> FALSE, network |-> NoResponse,
     answered |-> FALSE, responded |-> NoResponse]

FetchEvents == 1..NumFetchEvents

\* the install handler's waitUntil promise settles: caches.open creates the
\* cache, cache.addAll stores all of urlsToCache or, failing, nothing
InstallSettles ==
    /\ swPc = "installing"
    /\ \E added \in BOOLEAN :
         LET cache == IF caches[CACHE_NAME].exists THEN caches[CACHE_NAME]
                      ELSE EmptyCache
         IN caches' = [caches EXCEPT ![CACHE_NAME] =
               IF added
               THEN [cache EXCEPT !.entries =
                       [u \in Urls |-> IF u \in urlsToCache THEN Precached(u)
                                       ELSE cache.entries[u]]]
               ELSE cache]
    /\ swPc' = "installed"
    /\ UNCHANGED <<pendingDeletes, events, chainVars, waveVars, textVars,
                   histVars, pcmVars>>

\* the activate handler runs: caches.keys() is pending
ActivateStarts ==
    /\ swPc = "installed"
    /\ swPc' = "keys"
    /\ UNCHANGED <<caches, pendingDeletes, events, chainVars, waveVars,
                   textVars, histVars, pcmVars>>

\* caches.keys() resolves: caches.delete is called for every old name and
\* Promise.all waits for all of them; with none it resolves at once
KeysSettle ==
    /\ swPc = "keys"
    /\ LET cacheNames == {n \in CacheNames : caches[n].exists}
           old == {n \in cacheNames : IsOldCache(n)}
       IN /\ pendingDeletes' = [called |-> old, pending |-> old]
          /\ swPc' = IF old = {} THEN "activated" ELSE "deleting"
    /\ UNCHANGED <<caches, events, chainVars, waveVars, textVars, histVars,
                   pcmVars>>

\* one caches.delete(cacheName) resolves; the last one settles Promise.all
\* and with it the promise passed to waitUntil
DeleteSettles ==
    /\ swPc = "deleting"
    /\ \E cacheName \in pendingDeletes.pending :
         /\ caches' = [caches EXCEPT ![cacheName] = NoCache]
         /\ pendingDeletes' =
               [pendingDeletes EXCEPT !.pending = @ \ {cacheName}]
         /\ swPc' = IF pendingDeletes.pending = {cacheName} THEN "activated"
                    ELSE "deleting"
    /\ UNCHANGED <<events, chainVars, waveVars, textVars, histVars, pcmVars>>

\* a fetch event is dispatched: the handler returns for a method other
\* than GET and calls respondWith(caches.match(event.request)) otherwise
FetchEvent(e) ==
    /\ swPc = "activated"
    /\ events[e].pc = "idle"
    /\ \E method \in Methods, url \in Urls :
         events' = [events EXCEPT ![e] =
            IF method # "GET"
            THEN [IdleEvent EXCEPT !.pc = "done", !.method = method,
                                   !.url = url]
            ELSE [IdleEvent EXCEPT !.pc = "matching", !.method = method,
                                   !.url = url, !.intercepted = TRUE]]
    /\ UNCHANGED <<caches, swPc, pendingDeletes, chainVars, waveVars,
                   textVars, histVars, pcmVars>>

\* caches.match(event.request) resolves
MatchSettles(e) ==
    /\ events[e].pc = "matching"
    /\ LET response == cachesMatch(caches, events[e].url) IN
       events' = [events EXCEPT ![e] =
          IF CacheHit(response)
          THEN [@ EXCEPT !.pc = "done", !.matched = response,
                         !.answered = TRUE, !.responded = response]
          ELSE [@ EXCEPT !.pc = "fetching", !.matched = response,
                         !.fetched = TRUE]]
    /\ UNCHANGED <<caches, swPc, pendingDeletes, chainVars, waveVars,
                   textVars, histVars, pcmVars>>

\* fetch(event.request) resolves with a response: it is returned, after
\* caches.open(CACHE_NAME).then(put) was started for a cacheable one
FetchResolves(e) ==
    /\ events[e].pc = "fetching"
    /\ \E response \in NetworkResponses(events[e].url) :
         events' = [events EXCEPT ![e] =
            [@ EXCEPT !.pc = IF SkipsCaching(response) THEN "done"
                             ELSE "putting",
                      !.network = response,
                      !.answered = TRUE, !.responded = response]]
    /\ UNCHANGED <<caches, swPc, pendingDeletes, chainVars, waveVars,
                   textVars, histVars, pcmVars>>

\* fetch(event.request) rejects: the catch looks up "/index.html"
FetchRejects(e) ==
    /\ events[e].pc = "fetching"
    /\ events' = [events EXCEPT ![e].pc = "offline"]
    /\ UNCHANGED <<caches, swPc, pendingDeletes, chainVars, waveVars,
                   textVars, histVars, pcmVars>>

\* caches.match("/index.html") resolves, with undefined when it is missing
OfflineSettles(e) ==
    /\ events[e].pc = "offline"
    /\ events' = [events EXCEPT ![e] =
          [@ EXCEPT !.pc = "done", !.answered = TRUE,
                    !.responded = cachesMatch(caches, "/index.html")]]
    /\ UNCHANGED <<caches, swPc, pendingDeletes, chainVars, waveVars,
                   textVars, histVars, pcmVars>>

\* caches.open(CACHE_NAME) resolves, creating the cache when it is missing,
\* and cache.put(event.request, responseToCache) stores the clone or fails
PutSettles(e) ==
    /\ events[e].pc = "putting"
    /\ \E stored \in BOOLEAN :
         LET cache == IF caches[CACHE_NAME].exists THEN caches[CACHE_NAME]
                      ELSE EmptyCache
             responseToCache == [events[e].network EXCEPT !.via = "fetch"]
         IN caches' = [caches EXCEPT ![CACHE_NAME] =
               IF stored
               THEN [cache EXCEPT !.entries[events[e].url] = responseToCache]
               ELSE cache]
    /\ events' = [events EXCEPT ![e].pc = "done"]
    /\ UNCHANGED <<swPc, pendingDeletes, chainVars, waveVars, textVars,
                   histVars, pcmVars>>

WorkerIdle ==
    /\ caches = [n \in CacheNames |-> NoCache]
    /\ swPc = "none"
    /\ pendingDeletes = [called |-> {}, pending |-> {}]
    /\ events = [e \in FetchEvents |-> IdleEvent]

\* the install event of a new worker, over the caches older workers left
WorkerInputs ==
    /\ caches \in [CacheNames -> {NoCache, EmptyCache, OldCache}]
    /\ swPc = "installing"
    /\ pendingDeletes = [called |-> {}, pending |-> {}]
    /\ events = [e \in FetchEvents |-> IdleEvent]

(***************************************************************************)
(* The text box.  A text is held as its numbers of leading white-space     *)
(* characters, of characters from the first to the last one that is not    *)
(* white space, and of trailing white-space characters.                    *)
(***************************************************************************)
MaxTextLength == 2000
LengthMargin  == 1

TextLength(t) == t.lead + t.body + t.trail
Trim(t) == [lead |-> 0, body |-> t.body, trail |-> 0]

BodyLengths ==
    0..2 \cup (MaxTextLength - LengthMargin)..(MaxTextLength + LengthMargin)
TextValues ==
    {[lead |-> l, body |-> b, trail |-> t] :
        l \in 0..1, b \in BodyLengths, t \in 0..1}

EmptyText == [lead |-> 0, body |-> 0, trail |-> 0]
NoVerdict == [done |-> FALSE, text |-> EmptyText, valid |-> FALSE,
              error |-> ""]

validateTextInput(text) ==
    IF TextLength(text) = 0 \/ TextLength(Trim(text)) = 0
    THEN [valid |-> FALSE,
          error |-> "Please enter some text to convert to speech."]
    ELSE IF TextLength(text) > MaxTextLength
    THEN [valid |-> FALSE,
          error |-> "Text is too long. Maximum 2000 characters allowed."]
    ELSE [valid |-> TRUE, error |-> ""]

\* the user edits the text box
TypeText ==
    /\ \E t \in TextValues : textInput' = [textInput EXCEPT !.value = t]
    /\ UNCHANGED <<verdict, dispatched, waveVars, histVars, chainVars,
                 pcmVars, swVars>>

\* a caller asks for validateTextInput's verdict on the text in the box
ValidateText ==
    /\ verdict' = [done  |-> TRUE,
                   text  |-> textInput.value,
                   valid |-> validateTextInput(textInput.value).valid,
                   error |-> validateTextInput(textInput.value).error]
    /\ UNCHANGED <<textInput, dispatched, waveVars, histVars, chainVars,
                 pcmVars, swVars>>

\* UIController.onGenerateClick, reachable while the button is enabled
onGenerateClick ==
    /\ ~textInput.disabled
    /\ LET text == Trim(textInput.value) IN
       IF TextLength(text) = 0 \/ TextLength(text) < 2
       THEN UNCHANGED <<textInput, dispatched>>
       ELSE /\ textInput' = [textInput EXCEPT !.disabled = TRUE]
            /\ dispatched' = dispatched \cup {text}
    /\ UNCHANGED <<verdict, waveVars, histVars, chainVars,
                 pcmVars, swVars>>

\* UIController.resetGenerateButton, when the generation has ended
resetGenerateButton ==
    /\ textInput.disabled
    /\ textInput' = [textInput EXCEPT !.disabled = FALSE]
    /\ UNCHANGED <<verdict, dispatched, waveVars, histVars, chainVars,
                 pcmVars, swVars>>

TextIdle ==
    /\ textInput = [value |-> EmptyText, disabled |-> FALSE]
    /\ verdict = NoVerdict
    /\ dispatched = {}

(***************************************************************************)
(* The generation history and its copy in localStorage.  The stored value  *)
(* is the JSON text of the list: each item an object of string and number  *)
(* tokens, in the order of the list.                                       *)
(***************************************************************************)
MaxHistory        == 10
HistoryTextLength == 100
MaxOps            == 3

Min(a, b) == IF a < b THEN a ELSE b

\* VOICES.find((v) => v.id === voiceId)?.name || "Unknown"
VoiceName(voiceId) ==
    CASE voiceId = "en_US-lessac-high"       -> "Lessac"
      [] voiceId = "en_US-hfc_female-medium" -> "HFC Female"
      [] OTHER                               -> "Unknown"

\* the item addToHistory builds at time t; the text is held as its length
HistoryItem(t, textLength, voiceId, duration) ==
    [id        |-> t,
     text      |-> Min(textLength, HistoryTextLength),
     voiceName |-> VoiceName(voiceId),
     duration  |-> duration,
     timestamp |-> t]

\* JSON.stringify of one item and JSON.parse of its text
JsonItem(item) ==
    [id        |-> [token |-> "string", v |-> item.id],
     text      |-> [token |-> "string", v |-> item.text],
     voiceName |-> [token |-> "string", v |-> item.voiceName],
     duration  |-> [token |-> "number", v |-> item.duration],
     timestamp |-> [token |-> "string", v |-> item.timestamp]]

ParseItem(json) ==
    [id        |-> json.id.v,
     text      |-> json.text.v,
     voiceName |-> json.voiceName.v,
     duration  |-> json.duration.v,
     timestamp |-> json.timestamp.v]

JsonStringify(list) == [i \in 1..Len(list) |-> JsonItem(list[i])]
JsonParse(json)     == [i \in 1..Len(json) |-> ParseItem(json[i])]

\* getFromStorage(HISTORY_STORAGE_KEY, []): no entry, or text that does not
\* parse, gives the default; a JSON value that is no array is returned as is
getFromStorage(store) ==
    CASE store.kind = "array"  -> [isArray |-> TRUE,
                                   list |-> JsonParse(store.json)]
      [] store.kind = "object" -> [isArray |-> FALSE, list |-> <<>>]
      [] OTHER                 -> [isArray |-> TRUE, list |-> <<>>]

\* mutant of saveToStorage: the write is dropped
saveToStorage_Dropped(store, value, ok) == store

\* saveToStorage(HISTORY_STORAGE_KEY, value); setItem throws when ~ok
saveToStorage(store, value, ok) ==
    IF ok THEN [kind |-> "array", json |-> JsonStringify(value)] ELSE store

\* loadHistory on a controller whose history is `list`
loadHistory(store, list) ==
    LET stored == getFromStorage(store) IN
    IF stored.isArray /\ Len(stored.list) > 0 THEN stored.list ELSE list

\* this.history.unshift(item)
Unshift(item, list) == <<item>> \o list

\* mutant of PopOverflow: the newest item is dropped
PopOverflow_Shift(list) ==
    IF Len(list) > MaxHistory THEN Tail(list) ELSE list

\* if (this.history.length > 10) this.history.pop()
PopOverflow(list) ==
    IF Len(list) > MaxHistory THEN SubSeq(list, 1, Len(list) - 1) ELSE list

RECURSIVE Filter(_, _)
Filter(list, id) ==
    IF list = <<>> THEN <<>>
    ELSE IF Head(list).id # id THEN <<Head(list)>> \o Filter(Tail(list), id)
         ELSE Filter(Tail(list), id)

NoOp == [op |-> "none", ok |-> FALSE, id |-> 0]

\* UIController.addToHistory, called by displayAudio
addToHistory ==
    /\ ops < MaxOps
    /\ \E dt \in 0..1, textLength \in {5, 120}, ok \in BOOLEAN :
         LET item == HistoryItem(now + dt, textLength, "en_US-lessac-high",
                                 2)
             list == PopOverflow(Unshift(item, history))
         IN  /\ now' = now + dt
             /\ history' = list
             /\ storage' = saveToStorage(storage, list, ok)
             /\ lastOp' = [op |-> "add", ok |-> ok, id |-> item.id]
    /\ ops' = ops + 1
    /\ UNCHANGED <<waveVars, textVars, chainVars,
                 pcmVars, swVars>>

\* the click handler of the delete button of the i-th rendered item
deleteHistoryItem ==
    /\ ops < MaxOps
    /\ \E i \in 1..Len(history), ok \in BOOLEAN :
         LET list == Filter(history, history[i].id) IN
         /\ history' = list
         /\ storage' = saveToStorage(storage, list, ok)
         /\ lastOp' = [op |-> "delete", ok |-> ok, id |-> history[i].id]
    /\ ops' = ops + 1
    /\ UNCHANGED <<now, waveVars, textVars, chainVars,
                 pcmVars, swVars>>

\* the page is loaded again: a new UIController runs loadHistory
reloadPage ==
    /\ ops < MaxOps
    /\ history' = loadHistory(storage, <<>>)
    /\ lastOp' = [NoOp EXCEPT !.op = "reload"]
    /\ ops' = ops + 1
    /\ UNCHANGED <<storage, now, waveVars, textVars, chainVars,
                 pcmVars, swVars>>

\* a history of n items stored by an earlier session, newest first
StoredList(n) ==
    [i \in 1..n |-> HistoryItem(n + 1 - i, 5, "en_US-lessac-high", 2)]

StoredValues ==
    {[kind |-> k, json |-> <<>>] : k \in {"absent", "object", "corrupt"}}
    \cup {[kind |-> "array", json |-> JsonStringify(StoredList(n))] :
            n \in {0, 1, MaxHistory - 1, MaxHistory}}

HistoryIdle ==
    /\ history = <<>>
    /\ storage = [kind |-> "absent", json |-> <<>>]
    /\ now = MaxHistory + 1
    /\ lastOp = NoOp
    /\ ops = 0

HistoryInputs ==
    /\ storage \in StoredValues
    /\ history = loadHistory(storage, <<>>)
    /\ now = MaxHistory + 1
    /\ lastOp = NoOp
    /\ ops = 0

(***************************************************************************)
(* Specification of the start-up and the synthesis chain.                  *)
(***************************************************************************)
ChainInit ==
    /\ piper = "null"
    /\ isInitialized = FALSE
    /\ isInitializing = FALSE
    /\ initPromise = 0
    /\ voices = FALSE
    /\ selectedVoice = "none"
    /\ currentModelData = "none"
    /\ initPc = "idle"
    /\ promises = <<>>
    /\ usePiper = FALSE
    /\ piperReady = FALSE
    /\ initialized = FALSE
    /\ callers = [c \in InitCallers |-> IdleCaller]
    /\ appPc = "i18n"
    /\ uiController = FALSE
    /\ listenersAttached = FALSE
    /\ isReady = FALSE
    /\ toasts = {}
    /\ voiceList = "VOICES"
    /\ requests = [s \in Slots |-> IdleRequest]

Init == ChainInit /\ WaveIdle /\ TextIdle /\ HistoryIdle /\ PcmIdle
    /\ WorkerIdle

Next ==
    \/ AppStart
    \/ ImportSettles
    \/ VoicesLoaded
    \/ ModelSettles
    \/ AppLoadVoices
    \/ AppSettled
    \/ GenerateAudio
    \/ GenerateWithValidation
    \/ RetryGeneration
    \/ \E s \in Slots : VoiceModelSettles(s)
    \/ \E s \in Slots : PiperGenSettles(s)
    \/ \E s \in Slots : WebSpeechSettles(s)

Spec == Init /\ [][Next]_vars

\* The start-up alone, with initializeTTS() callers next to the application
NextStartup ==
    \/ AppStart
    \/ \E c \in InitCallers : InitializeTTS(c)
    \/ ImportSettles
    \/ VoicesLoaded
    \/ ModelSettles
    \/ AppLoadVoices
    \/ AppSettled

SpecStartup == Init /\ [][NextStartup]_vars

\* bufferToWave over the buffers and bit depths of WaveInputs
InitWave ==
    ChainInit /\ WaveInputs /\ TextIdle /\ HistoryIdle /\ PcmIdle
    /\ WorkerIdle
NextWave == EncodeWave
SpecWave == InitWave /\ [][NextWave]_vars

\* pcmToWav over the samples and bit depths of PcmInputs
InitPcm == ChainInit /\ WaveIdle /\ TextIdle /\ HistoryIdle /\ PcmInputs
    /\ WorkerIdle
NextPcm == EncodePcm
SpecPcm == InitPcm /\ [][NextPcm]_vars

\* the service worker from its install event on
InitWorker ==
    ChainInit /\ WaveIdle /\ TextIdle /\ HistoryIdle /\ PcmIdle
    /\ WorkerInputs
NextWorker ==
    \/ InstallSettles
    \/ ActivateStarts
    \/ KeysSettle
    \/ DeleteSettles
    \/ \E e \in FetchEvents : FetchEvent(e)
    \/ \E e \in FetchEvents : MatchSettles(e)
    \/ \E e \in FetchEvents : FetchResolves(e)
    \/ \E e \in FetchEvents : FetchRejects(e)
    \/ \E e \in FetchEvents : OfflineSettles(e)
    \/ \E e \in FetchEvents : PutSettles(e)

SpecWorker == InitWorker /\ [][NextWorker]_vars

\* the text box and the generate button
NextText ==
    \/ TypeText
    \/ ValidateText
    \/ onGenerateClick
    \/ resetGenerateButton

SpecText == Init /\ [][NextText]_vars

\* the history of a session that starts from one of StoredValues
InitHistory ==
    ChainInit /\ WaveIdle /\ TextIdle /\ HistoryInputs /\ PcmIdle
    /\ WorkerIdle
NextHistory ==
    \/ addToHistory
    \/ deleteHistoryItem
    \/ reloadPage

SpecHistory == InitHistory /\ [][NextHistory]_vars

\* Piper is ready whenever the integration counts as initialized, so
\* generateSpeech never has to poll for it
InitializedMeansReady == initialized => piperReady /\ isInitialized

(***************************************************************************)
(* Claims about the synthesis chain.                                       *)
(***************************************************************************)
\* C1: VoiceForgeEngine.synthesizeToSpeech tries Piper whenever piperReady
\* and usePiper are both true at the call; the Web Speech backend is called
\* only when they were not or when the Piper attempt threw; after a throw
\* usePiper is false when the backend is called, with the same text and
\* options; a Piper attempt that succeeded never calls the backend.
C1_PiperFirst ==
    \A s \in Slots :
        LET q == requests[s] IN
        /\ q.entry => q.piperTried
        /\ q.piperTried => q.entry
        /\ q.webInvoked => (~q.entry \/ q.piperThrew)
        /\ q.webInvoked /\ q.piperThrew =>
              /\ ~q.usePiperAtWeb
              /\ q.webArgs = <<q.text, q.voiceId, q.forcePiper>>
        /\ q.piperStatus = "fulfilled" => ~q.webInvoked

\* a Piper attempt threw and the request went on to the Web Speech backend
C1_Witness ==
    \E s \in Slots :
        /\ requests[s].entry /\ requests[s].piperThrew
        /\ requests[s].webInvoked /\ requests[s].pc = "done"

\* C2: PiperEngine.synthesizeToSpeech never fulfils with PCM the engine did
\* not produce: when the synthesis call throws, returns an unknown shape or
\* no synthesis method exists, it rejects.
C2_NoSyntheticFallback ==
    \A s \in Slots :
        requests[s].piperStatus = "fulfilled" =>
            /\ requests[s].piperOrigin = "engine"
            /\ requests[s].engineOutcome \notin
                   {"throws", "unknown", "noMethod"}

\* C6: after a failed Piper initialization at start-up a generate request
\* is served by the Web Speech backend and not rejected for the TTS engine
\* not being initialized.
C6_FallbackServes ==
    LET q == requests["generateAudio"] IN
    q.pc = "done" /\ q.degraded =>
        /\ q.webInvoked
        /\ q.result.error # "TTS Engine not initialized"

\* C8: generateWithValidation calls generateSpeech at most maxRetries times,
\* returns when an attempt generated audio that is not silent, and throws
\* once maxRetries attempts failed or were silent.
C8_ReturnsValidAudio ==
    LET q == requests["generateWithValidation"] IN
    /\ q.calls <= q.maxRetries
    /\ q.pc = "done" =>
          /\ q.heard => q.outcome = "returned"
          /\ q.outcome = "thrown" => q.attempt = q.maxRetries
          /\ q.outcome = "returned" => ~RmsBelowThreshold(q.result.rawAudio)

(***************************************************************************)
(* Claims about the start-up.                                              *)
(***************************************************************************)
\* the timers and promise reactions of VoiceForgeApp.initialize do run
FairStartup ==
    SpecStartup /\ WF_vars(AppLoadVoices) /\ WF_vars(AppSettled)

StartupRejected == callers[1].pc = "done" /\ ~callers[1].ok

\* C5: when voiceEngine.initialize() rejects during
\* VoiceForgeApp.initialize, the UI controller is created and the listeners
\* are attached, the initialization-error toast is never shown, and isReady
\* becomes true in the end.
C5_FailureAbsorbed ==
    /\ [](StartupRejected =>
            /\ uiController /\ listenersAttached
            /\ "initialization_error" \notin toasts)
    /\ (StartupRejected ~> isReady)

\* the engine failed to initialize and the application is ready
C5_Witness == StartupRejected /\ isReady /\ ~piperReady

\* the caller whose initialize() call started the closure caller c follows
Starter(c, f) ==
    /\ f # c
    /\ ~callers[f].joined
    /\ callers[f].promise # 0
    /\ promises[callers[f].promise].follows
          = promises[callers[c].promise].follows

\* C7 as stated: a call made while an initialization is in progress returns
\* the same promise as the call that started it.
C7_SamePromise ==
    \A c \in InitCallers :
        callers[c].joined =>
            \E f \in InitCallers :
                Starter(c, f) /\ callers[c].promise = callers[f].promise

\* C7, amended: a call made while an initialization is in progress returns
\* a promise that follows the initPromise created by the call that started
\* it; that initialization imports the library once and constructs the
\* engine at most once, and no second one runs beside it.
C7_SharedInitialization ==
    /\ \A c \in InitCallers :
          callers[c].joined =>
              /\ \E f \in InitCallers : Starter(c, f)
              /\ LET run == promises[promises[callers[c].promise].follows]
                 IN /\ run.kind = "closure"
                    /\ run.imports = 1
                    /\ run.constructs <= 1
                    /\ run.state = "fulfilled" => run.constructs = 1
    /\ Cardinality({p \in 1..Len(promises) :
                       promises[p].kind = "closure"
                       /\ promises[p].state = "pending"}) <= 1

\* a call joined a running initialization and has resumed with its outcome
C7_Witness ==
    \E c \in InitCallers : callers[c].joined /\ callers[c].pc = "done"

(***************************************************************************)
(* Claims about the WAV encoder, the text box and the history.             *)
(***************************************************************************)
\* the numbers read back from the bytes b at byte offset `at`
ReadUint16(b, at) == b[at + 1] + 256 * b[at + 2]
ReadUint32(b, at) ==
    b[at + 1] + 256 * b[at + 2] + 65536 * b[at + 3] + 16777216 * b[at + 4]

\* C3: for a buffer of C channels and N frames and a bit depth of 16, 24
\* or 32, bufferToWave gives exactly 44 + C*N*bitDepth/8 bytes; the header
\* states RIFF size 36 + dataLength, fmt size 16, format 3 for 32 bits and
\* 1 otherwise, C channels, the sample rate, byteRate = sampleRate *
\* blockAlign, blockAlign = C*bitDepth/8, the bit depth and dataLength; the
\* sample of frame i of channel ch lies at sample position i*C + ch, so the
\* samples fill the dataLength bytes after the header, frame by frame.
C3_WaveLayout ==
    (waveOut.done /\ waveIn.bitDepth \in {16, 24, 32}) =>
        LET b == waveOut.bytes
            C == waveIn.audioBuffer.numberOfChannels
            N == waveIn.audioBuffer.length
            rate == waveIn.audioBuffer.sampleRate
            bits == waveIn.bitDepth
            bytesPer == bits \div 8
            dataLength == C * N * bytesPer
        IN  /\ ~waveOut.threw
            /\ Len(b) = 44 + dataLength
            /\ SubSeq(b, 1, 4) = CharCodes("RIFF")
            /\ ReadUint32(b, 4) = 36 + dataLength
            /\ SubSeq(b, 9, 16) = CharCodes("WAVE") \o CharCodes("fmt ")
            /\ ReadUint32(b, 16) = 16
            /\ ReadUint16(b, 20) = (IF bits = 32 THEN 3 ELSE 1)
            /\ ReadUint16(b, 22) = C
            /\ ReadUint32(b, 24) = rate
            /\ ReadUint32(b, 28) = rate * C * bytesPer
            /\ ReadUint16(b, 32) = C * bytesPer
            /\ ReadUint16(b, 34) = bits
            /\ SubSeq(b, 37, 40) = CharCodes("data")
            /\ ReadUint32(b, 40) = dataLength
            /\ \A i \in 0..(N - 1), ch \in 0..(C - 1) :
                  LET at == 44 + (i * C + ch) * bytesPer IN
                  SubSeq(b, at + 1, at + bytesPer)
                     = SampleBytes(waveIn.audioBuffer.channels[ch + 1][i + 1],
                                   bits)

\* a stereo buffer of two frames was encoded at 24 bits
C3_Witness ==
    /\ waveOut.done
    /\ waveIn.bitDepth = 24
    /\ waveIn.audioBuffer.numberOfChannels = 2
    /\ waveIn.audioBuffer.length = 2
    /\ waveIn.audioBuffer.channels[1] # waveIn.audioBuffer.channels[2]

\* C4: validateTextInput returns valid only for text that is non-empty
\* after trimming and at most 2000 characters long, and onGenerateClick
\* never dispatches a generateAudio event for text of more than 2000
\* characters.
C4_TextLimit ==
    /\ (verdict.done /\ verdict.valid) =>
          /\ TextLength(Trim(verdict.text)) > 0
          /\ TextLength(verdict.text) <= MaxTextLength
    /\ \A text \in dispatched : TextLength(text) <= MaxTextLength

\* the items of a are items of b at increasing positions
RECURSIVE IsSubsequence(_, _)
IsSubsequence(a, b) ==
    IF a = <<>> THEN TRUE
    ELSE IF b = <<>> THEN FALSE
    ELSE IF Head(a) = Head(b) THEN IsSubsequence(Tail(a), Tail(b))
    ELSE IsSubsequence(a, Tail(b))

\* C9, the bound: the history never holds more than 10 items
HistoryBounded == Len(history) <= MaxHistory

\* C9, one addToHistory: the new item is first, the items before it follow
\* in their order, and of a full history only the last item is dropped
AddKeepsOrder ==
    (ops' = ops + 1 /\ lastOp'.op = "add") =>
        /\ history' # <<>>
        /\ history'[1].id = lastOp'.id
        /\ Tail(history') =
              (IF Len(history) < MaxHistory THEN history
               ELSE SubSeq(history, 1, MaxHistory - 1))

\* C9, one delete: the items that stay keep their relative order
DeleteKeepsOrder ==
    (ops' = ops + 1 /\ lastOp'.op = "delete") =>
        /\ IsSubsequence(history', history)
        /\ Len(history') < Len(history)

\* C9: after any sequence of addToHistory and delete operations that
\* starts from a stored history of at most 10 items, the history holds at
\* most 10 items, an added item is at index 0 with the others behind it in
\* their previous order, and an add to a full history drops the last item
\* only.
C9_HistoryBounded ==
    /\ []HistoryBounded
    /\ [][AddKeepsOrder /\ DeleteKeepsOrder]_vars

\* an item was added to a full history
C9_Witness ==
    /\ lastOp.op = "add"
    /\ Len(history) = MaxHistory
    /\ history[1].id = lastOp.id
    /\ history[MaxHistory].id = 2

\* C10: after every addToHistory and every delete whose storage write
\* succeeded, the value stored under HISTORY_STORAGE_KEY is the JSON text
\* of the in-memory history, and a UIController constructed then loads
\* exactly that list in that order.
C10_PersistedHistory ==
    (lastOp.op \in {"add", "delete"} /\ lastOp.ok) =>
        /\ storage.kind = "array"
        /\ JsonParse(storage.json) = history
        /\ loadHistory(storage, <<>>) = history

\* a delete was written to a storage that held a full history
C10_Witness ==
    /\ lastOp.op = "delete" /\ lastOp.ok
    /\ Len(history) = MaxHistory - 1
    /\ storage.kind = "array" /\ Len(storage.json) = MaxHistory - 1

(***************************************************************************)
(* Claims about the service worker.                                        *)
(***************************************************************************)
\* C11: a GET request for which caches.match found an entry is answered
\* with that entry and causes no fetch; the worker fetches only after a
\* miss; a request whose method is not GET is never intercepted (no
\* respondWith, no cache lookup, no fetch).
C11_CacheFirst ==
    \A e \in FetchEvents :
        LET q == events[e] IN
        /\ q.matched # NoResponse =>
              /\ ~q.fetched
              /\ q.answered /\ q.responded = q.matched
              /\ q.network = NoResponse
        /\ q.fetched => q.intercepted /\ q.matched = NoResponse
        /\ (q.pc # "idle" /\ q.method # "GET") =>
              /\ ~q.intercepted /\ ~q.fetched /\ ~q.answered
              /\ q.pc = "done"
        /\ (q.pc # "idle" /\ q.method = "GET") => q.intercepted

\* one GET was answered from the cache, another went to the network
C11_Witness ==
    \E e, f \in FetchEvents :
        /\ events[e].pc = "done" /\ events[e].matched # NoResponse
        /\ events[e].responded.via = "install"
        /\ events[f].fetched /\ events[f].network # NoResponse

\* C12: the fetch handler puts a network response into 'voiceforge-v1', and
\* into no other cache, only when it has status 200 and is not of type
\* 'error'; whenever fetch resolved, the page gets that very response.
C12_OnlySuccessCached ==
    /\ \A n \in CacheNames, u \in Urls :
          LET r == caches[n].entries[u] IN
          r.via = "fetch" =>
              /\ n = CACHE_NAME
              /\ r.status = 200 /\ r.type # "error"
              /\ r.url = u
    /\ \A e \in FetchEvents :
          LET q == events[e] IN
          /\ q.pc = "putting" =>
                q.network.status = 200 /\ q.network.type # "error"
          /\ q.network # NoResponse =>
                q.answered /\ q.responded = q.network

\* a 200 response was stored and a 404 response was returned and not stored
C12_Witness ==
    \E e, f \in FetchEvents :
        /\ events[e].pc = "done" /\ events[e].network.status = 200
        /\ caches[CACHE_NAME].entries[events[e].url].via = "fetch"
        /\ events[f].pc = "done" /\ events[f].network.status = 404
        /\ events[f].responded.status = 404

\* C13, the state once waitUntil's promise has settled: no cache with
\* another name is left
OldCachesDeleted ==
    swPc = "activated" =>
        \A n \in CacheNames : n # CACHE_NAME => ~caches[n].exists

\* C13, the steps of the activate handler: none of them changes the
\* 'voiceforge-v1' cache or its entries
CurrentCacheUntouched ==
    (swPc \in {"installed", "keys", "deleting"}) =>
        caches'[CACHE_NAME] = caches[CACHE_NAME]

\* C13: once the promise passed to waitUntil in the activate handler has
\* settled, every cache whose name is not 'voiceforge-v1' has been deleted,
\* and the activate step leaves the 'voiceforge-v1' cache and its entries
\* as they were.
C13_OldCachesCleaned ==
    /\ []OldCachesDeleted
    /\ [][CurrentCacheUntouched]_vars

\* two old caches were deleted and the current cache still has its entries
C13_Witness ==
    /\ swPc = "activated"
    /\ pendingDeletes.called = CacheNames \ {CACHE_NAME}
    /\ caches[CACHE_NAME].exists
    /\ caches[CACHE_NAME].entries["/index.html"] # NoResponse

\* 256 to the power k
RECURSIVE Pow256(_)
Pow256(k) == IF k = 0 THEN 1 ELSE 256 * Pow256(k - 1)

RECURSIVE UnsignedLE(_)
UnsignedLE(bs) ==
    IF bs = <<>> THEN 0 ELSE Head(bs) + 256 * UnsignedLE(Tail(bs))

\* the signed integer that the bytes bs hold in little-endian order
SignedLE(bs) ==
    LET k == Len(bs)
        top == IF bs[k] >= 128 THEN bs[k] - 256 ELSE bs[k]
    IN  top * Pow256(k - 1) + UnsignedLE(SubSeq(bs, 1, k - 1))

\* the sample x, clamped, as a signed 16-bit PCM value
Pcm16Value(x) ==
    LET sample == IF x > 4 THEN 4 ELSE IF x < -4 THEN -4 ELSE x
    IN  IF sample < 0 THEN -((-sample * 32768) \div 4)
        ELSE (sample * 32767) \div 4

\* C14: for every sample count n and bit depth of 16, 24 or 32, pcmToWav
\* writes no byte outside its buffer of 44 + dataLength bytes, declares
\* dataLength = n * bitDepth / 8 and bits per sample = bitDepth, and fills
\* the data chunk with one signed integer of bitDepth bits per sample: the
\* k-th slot of bitDepth / 8 bytes holds sample k, whose 16 leading bits
\* are its 16-bit PCM value (within one step of rounding).
C14_DataFillsChunk ==
    pcmOut.done =>
        LET b == pcmOut.bytes
            n == Len(pcmIn.pcmData)
            bits == pcmIn.bitDepth
            bytesPer == bits \div 8
            dataLength == n * bytesPer
        IN  /\ ~pcmOut.threw
            /\ Len(b) = 44 + dataLength
            /\ ReadUint16(b, 34) = bits
            /\ ReadUint32(b, 40) = dataLength
            /\ \A k \in 0..(n - 1) :
                  LET at == 44 + k * bytesPer
                      held == SignedLE(SubSeq(b, at + 1, at + bytesPer))
                      lead == held \div Pow256(bytesPer - 2)
                      d == lead - Pcm16Value(pcmIn.pcmData[k + 1])
                  IN  d \in -1..1

\* C14 for the default bit depth alone
Pcm16DataFillsChunk == pcmIn.bitDepth = 16 => C14_DataFillsChunk

====
